---- MODULE Spec2Model ----
(***************************************************************************)
(* GpuPreAgg (pg-strom): the shared aggregation state, the final-buffer    *)
(* generations and the task life cycle of src/unnamed/part_002             *)
(* (gpupreagg.c).  One action per handler of the GPU server and of the     *)
(* backend; a failure of the device (out of memory, kernel error, CUDA     *)
(* error) is an input of the handler it hits.                              *)
(***************************************************************************)
EXTENDS Integers, Naturals, Sequences, FiniteSets, TLC

(* ---------------- bounds of the model ---------------- *)
MaxTasks == 2          \* chunks the source delivers at most
MaxFail  == 2          \* injected failures (out of memory, kernel errors, CUDA errors)

(* ---------------- program constants ---------------- *)
NULL == 0
devBaselineMaxThreadsPerBlock == 1024
UnderSampled == 1000                  \* adjust_final_buffer_size: exec_nrows_in < 1000
MaxRatioTasks == 30                   \* Min(num_tasks, 30.0) / 30.0
FixedMargin == 200                    \* adjust_final_buffer_size: ... * 2.5 + 200.0

(* inputs the environment chooses from *)
LastChunk   == {400, 5000}            \* rows of the chunk that ends the stream
\* rows of a chunk filled to pgstrom_chunk_size()
FullChunk   == CHOOSE r \in LastChunk : \A q \in LastChunk : q <= r
KernGroups  == {300}                  \* kern.num_groups reported by the kernel
PlanNGroups == {100}                  \* planner's estimate of the group count
PlanNRowsIn == {10000}                \* planner's estimate of the input rows

TaskIds == 1 .. (MaxTasks + MaxFail)  \* chunk tasks and cloned terminators
GenIds  == 1 .. (MaxFail + 1)         \* final-buffer generations

Modes  == {"INVALID", "NOGROUP", "LOCAL", "GLOBAL", "FINAL", "ONLY_TERMINATION"}
Errors == {"Success", "CpuReCheck", "DataStoreNoSpace", "Fatal"}

VARIABLES
    gpa_sstate,   \* GpuPreAggSharedState
    pds,          \* final-buffer generations: pgstrom_data_store + device memory
    gpreagg,      \* GpuPreAggTask objects and their position in the GPU server
    gpas,         \* backend side: GpuPreAggState / plan properties
    ngen,         \* generations allocated so far
    ntask,        \* task objects allocated so far
    nfail,        \* failures injected so far
    crashed,      \* the GPU server dereferenced a null pds_final
    last_put,     \* outcome of the latest gpupreagg_put_final_buffer call
    lock_calls    \* CUDA calls the latest handler made holding gpa_sstate->lock

vars == <<gpa_sstate, pds, gpreagg, gpas, ngen, ntask, nfail, crashed, last_put,
          lock_calls>>

Max(a, b) == IF a > b THEN a ELSE b
Min(a, b) == IF a < b THEN a ELSE b
\* A cl_uint counter is held as the representative of least absolute value of
\* its residue modulo 2^32: -1 stands for 0xFFFFFFFF, the result of
\* decrementing 0, and the representative is the value an (int32) cast reads.
MaxInt32 == 2147483647
MinInt32 == -MaxInt32 - 1
Dec32(x) == IF x = MinInt32 THEN MaxInt32 ELSE x - 1
Inc32(x) == IF x = MaxInt32 THEN MinInt32 ELSE x + 1

\* the order of two 32-bit counters read as unsigned
ULess32(a, b) == IF (a < 0) = (b < 0) THEN a < b ELSE b < 0

(* ---------------- log() in fixed point ---------------- *)
LnScale == 10000
Ln2FP   == 6931

RECURSIVE Log2Floor(_)
Log2Floor(x) == IF x < 2 THEN 0 ELSE 1 + Log2Floor(x \div 2)

RECURSIVE Pow2(_)
Pow2(k) == IF k = 0 THEN 1 ELSE 2 * Pow2(k - 1)

\* LnScale * ln(x), by x = 2^k * m and the atanh series of ln(m)
LnFP(x) ==
    LET k  == Log2Floor(x)
        p  == Pow2(k)
        z  == ((x - p) * LnScale) \div (x + p)
        z2 == (z * z) \div LnScale
        z3 == (z2 * z) \div LnScale
        z5 == (z3 * z2) \div LnScale
        z7 == (z5 * z2) \div LnScale
    IN  k * Ln2FP + 2 * (z + (z3 \div 3) + (z5 \div 5) + (z7 \div 7))

(* ---------------- initial objects ---------------- *)
NoTask ==
    [st |-> "none", reduction_mode |-> "INVALID", clone |-> FALSE,
     pds_final |-> NULL, m_kds_final |-> 0, m_fhash |-> 0, key_dist_salt |-> 0,
     kerror |-> "Success", final_reduction_in_progress |-> FALSE,
     retry_by_nospace |-> FALSE, m_gpreagg |-> FALSE, cpu_fallback |-> FALSE,
     nitems_real |-> 0, hash_size |-> 0, kds_nrooms |-> 0,
     num_groups |-> 0, reduced |-> FALSE]

NoGen == [ntasks_running |-> 0, nterm |-> 0, nfree |-> 0, written |-> FALSE,
          key_dist_salt |-> 0]

create_gpupreagg_shared_state(plan_nrows_in, plan_ngroups) ==
    [refcnt |-> 1, scan_done |-> FALSE, ntasks_in_progress |-> 0,
     pds_final |-> NULL, m_kds_final |-> 0, m_fhash |-> 0,
     f_key_dist_salt |-> 1, f_nitems |-> 0,
     n_tasks_nogrp |-> 0, n_tasks_local |-> 0, n_tasks_global |-> 0,
     n_tasks_final |-> 0,
     plan_nrows_in |-> plan_nrows_in, exec_nrows_in |-> 0,
     plan_ngroups |-> plan_ngroups, exec_ngroups |-> 0]

Init ==
    /\ \E nr \in PlanNRowsIn, ng \in PlanNGroups :
          gpa_sstate = create_gpupreagg_shared_state(nr, ng)
    /\ \E nk \in {0, 1} :
          gpas = [num_group_keys |-> nk, has_notbyval |-> TRUE, scan_done |-> FALSE,
                  ended |-> FALSE]
    /\ pds = [g \in GenIds |-> NoGen]
    /\ gpreagg = [t \in TaskIds |-> NoTask]
    /\ ngen = 0
    /\ ntask = 0
    /\ nfail = 0
    /\ crashed = FALSE
    /\ last_put = [called |-> FALSE]
    /\ lock_calls = {}

(* ---------------- pure helpers of the handlers ---------------- *)

\* gpupreagg_get_final_buffer, "decision for the reduction mode":
\* real_ngroups = plan*(1-r) + exec*r with r = Min(num_tasks,30)/30.
\* RealNGroups30 is 30 * real_ngroups, and the comparisons are made after
\* multiplying both sides by 30
RealNGroups30(s) ==
    LET num_tasks == s.n_tasks_nogrp + s.n_tasks_local
                     + s.n_tasks_global + s.n_tasks_final
        m      == Min(num_tasks, MaxRatioTasks)
    IN  s.plan_ngroups * (MaxRatioTasks - m) + s.exec_ngroups * m

SelectReductionMode(s, nitems_real) ==
    LET real30 == RealNGroups30(s)
    IN  IF real30 < MaxRatioTasks * (devBaselineMaxThreadsPerBlock \div 4)
        THEN "LOCAL"
        ELSE IF real30 < MaxRatioTasks * (nitems_real \div 4)
        THEN "GLOBAL"
        ELSE "FINAL"

\* adjust_final_buffer_size: the row count the growth model is evaluated at
CurrNRowsIn(s) ==
    IF s.exec_nrows_in < s.plan_nrows_in \div 2
    THEN s.plan_nrows_in
    ELSE 2 * s.exec_nrows_in

\* (size_t)(alpha * log(nrows_in)) with alpha = exec_ngroups / log(exec_nrows_in)
GrowthModel(s, nrows_in) ==
    (s.exec_ngroups * LnFP(nrows_in)) \div LnFP(s.exec_nrows_in)

\* a faulty estimate: the planner's group count whatever was observed
CurrNGroups_plan(s) == s.plan_ngroups

\* adjust_final_buffer_size: group estimate
CurrNGroups(s) ==
    IF s.exec_nrows_in < UnderSampled
    THEN s.plan_ngroups
    ELSE GrowthModel(s, CurrNRowsIn(s))

\* a faulty salt: the quotient rounded up
KeyDistSalt_ceil(curr_ngroups) ==
    IF curr_ngroups < devBaselineMaxThreadsPerBlock \div 5
    THEN Max((devBaselineMaxThreadsPerBlock + 5 * curr_ngroups - 1)
             \div (5 * curr_ngroups), 1)
    ELSE 1

\* adjust_final_buffer_size, "update key_dist_salt" (curr_ngroups > 0)
KeyDistSalt(curr_ngroups) ==
    IF curr_ngroups < devBaselineMaxThreadsPerBlock \div 5
    THEN Max(devBaselineMaxThreadsPerBlock \div (5 * curr_ngroups), 1)
    ELSE 1

\* the task forgets the generation it worked on
ClearFinal(k) ==
    [k EXCEPT !.pds_final = NULL, !.m_kds_final = 0, !.m_fhash = 0,
              !.key_dist_salt = 0]

\* The handlers below transform a bundle B = [s, p, T, ng, nt, crash, ret]:
\* shared state, generations, tasks, allocation counters, whether the server
\* crashed and the value the call returned.
Bundle(s, p, T, ng, nt) ==
    [s |-> s, p |-> p, T |-> T, ng |-> ng, nt |-> nt, crash |-> FALSE,
     ret |-> FALSE, put |-> [called |-> FALSE], calls |-> {}]

\* a faulty allocation: the tasks still working on an older generation are
\* pointed at the new one
alloc_final_buffer_repoint(B) ==
    LET g    == B.ng + 1
        salt == KeyDistSalt(CurrNGroups(B.s))
    IN  [B EXCEPT !.ng = g,
                  !.p[g] = [NoGen EXCEPT !.key_dist_salt = salt],
                  !.s.pds_final = g,
                  !.s.m_kds_final = g,
                  !.s.m_fhash = g,
                  !.s.f_key_dist_salt = salt,
                  !.s.f_nitems = 0,
                  !.T = [t \in TaskIds |->
                            IF B.T[t].pds_final # NULL
                            THEN [B.T[t] EXCEPT !.pds_final = g, !.m_kds_final = g,
                                                !.m_fhash = g,
                                                !.key_dist_salt = salt]
                            ELSE B.T[t]]]

\* gpupreagg_alloc_final_buffer, successful allocation: a fresh generation
\* becomes the current one
gpupreagg_alloc_final_buffer(B) ==
    LET g    == B.ng + 1
        salt == KeyDistSalt(CurrNGroups(B.s))
    IN  [B EXCEPT !.ng = g,
                  !.p[g] = [NoGen EXCEPT !.key_dist_salt = salt],
                  !.s.pds_final = g,
                  !.s.m_kds_final = g,
                  !.s.m_fhash = g,
                  !.s.f_key_dist_salt = salt,
                  !.s.f_nitems = 0,
                  !.calls = @ \cup {"gpuMemAlloc", "cuMemcpyHtoDAsync",
                                    "cuLaunchKernel", "cuEventRecord"}]

\* gpupreagg_get_final_buffer, "attach pds_final and relevant CUDA resources"
AttachFinal(B, t) ==
    LET g == B.s.pds_final
    IN  [B EXCEPT !.p[g].ntasks_running = Inc32(@),
                  !.T[t].pds_final = g,
                  !.T[t].m_fhash = B.s.m_fhash,
                  !.T[t].m_kds_final = B.s.m_kds_final,
                  !.T[t].key_dist_salt = B.s.f_key_dist_salt,
                  !.ret = TRUE]

\* gpupreagg_get_final_buffer, "decision for the reduction mode": only a task
\* whose mode is GPUPREAGG_INVALID_REDUCTION is decided
DecideReductionMode(s, k) ==
    IF k.reduction_mode = "INVALID"
    THEN [k EXCEPT !.reduction_mode = SelectReductionMode(s, k.nitems_real)]
    ELSE k

\* gpupreagg_get_final_buffer, from SpinLockAcquire to SpinLockRelease;
\* alloc_ok says whether device memory for a new generation is granted when
\* one has to be allocated (gpupreagg_alloc_final_buffer bails out on
\* CUDA_ERROR_OUT_OF_MEMORY)
gpupreagg_get_final_buffer(B, t, alloc_ok) ==
    LET B1 == [B EXCEPT !.T[t] = DecideReductionMode(B.s, @)]
    IN  IF B1.s.pds_final = NULL
        THEN IF alloc_ok
             THEN AttachFinal(gpupreagg_alloc_final_buffer(B1), t)
             ELSE [B1 EXCEPT !.ret = FALSE,
                             !.calls = @ \cup {"gpuMemAlloc"}]
        ELSE AttachFinal([B1 EXCEPT !.calls = @ \cup {"cuStreamWaitEvent"}], t)

\* a faulty detach: the full generation stays the current buffer
DetachFullBuffer_never(s, g, force_detach_buffer) == s

\* gpupreagg_put_final_buffer, "the old buffer shall be detached not to assign
\* any more"
DetachFullBuffer(s, g, force_detach_buffer) ==
    IF force_detach_buffer /\ s.pds_final = g
    THEN [s EXCEPT !.pds_final = NULL]
    ELSE s

\* a faulty test: the last task of a generation terminates it even while it
\* is the current buffer
LastHolder_current(running, current, g) == running = 0

\* gpupreagg_put_final_buffer, scenario (2): "the last one that holds
\* @pds_final which is already detached"
LastHolder(running, current, g) == running = 0 /\ current # g

\* gpupreagg_put_final_buffer
gpupreagg_put_final_buffer(B, t, release_if_last_task, force_detach_buffer) ==
    LET g  == B.T[t].pds_final
        s1 == DetachFullBuffer(B.s, g, force_detach_buffer)
        s2 == [s1 EXCEPT !.ntasks_in_progress = Dec32(@)]
        last_task == s2.ntasks_in_progress = 0 /\ s2.scan_done
    IN  IF g = NULL
        THEN \* pds_final->ntasks_running on a null pointer
             [B EXCEPT !.s = s2, !.crash = TRUE, !.ret = FALSE]
        ELSE
        LET p1 == [B.p EXCEPT ![g].ntasks_running = Dec32(@)]
            last_holder == LastHolder(p1[g].ntasks_running, s2.pds_final, g)
            is_terminator == last_task \/ last_holder
            info == [called |-> TRUE, task |-> t, gen |-> g,
                     ret |-> is_terminator,
                     force |-> force_detach_buffer,
                     release |-> release_if_last_task]
        IN  IF is_terminator
            THEN IF release_if_last_task
                 THEN [B EXCEPT !.s = s2,
                                !.p = [p1 EXCEPT ![g].nfree = Min(@ + 1, 2)],
                                !.T[t] = ClearFinal(@),
                                !.ret = TRUE, !.put = info]
                 ELSE [B EXCEPT !.s = s2, !.p = p1, !.ret = TRUE, !.put = info]
            ELSE [B EXCEPT !.s = s2, !.p = p1, !.T[t] = ClearFinal(@),
                           !.ret = FALSE, !.put = info]

\* gpupreagg_cleanup_cuda_resources
gpupreagg_cleanup_cuda_resources(B, t) ==
    [B EXCEPT !.T[t].m_gpreagg = FALSE]

\* get_gpupreagg_shared_state
get_gpupreagg_shared_state(s) ==
    [s EXCEPT !.refcnt = Inc32(@)]

\* a faulty clone: the terminator does not take over the generation
push_terminator_task_nobuffer(B, t) ==
    LET n == B.nt + 1
        g == B.T[t].pds_final
    IN  [B EXCEPT !.nt = n,
                  !.s = get_gpupreagg_shared_state(@),
                  !.p[g].nterm = Min(@ + 1, 2),
                  !.T[n] = [NoTask EXCEPT
                               !.st = "pending", !.clone = TRUE,
                               !.reduction_mode = "ONLY_TERMINATION"],
                  !.T[t] = [@ EXCEPT !.pds_final = NULL, !.m_kds_final = 0,
                                     !.m_fhash = 0]]

\* gpupreagg_push_terminator_task: a clone takes over the generation
gpupreagg_push_terminator_task(B, t) ==
    LET n == B.nt + 1
        g == B.T[t].pds_final
    IN  [B EXCEPT !.nt = n,
                  !.s = get_gpupreagg_shared_state(@),
                  !.p[g].nterm = Min(@ + 1, 2),
                  !.T[n] = [NoTask EXCEPT
                               !.st = "pending", !.clone = TRUE,
                               !.reduction_mode = "ONLY_TERMINATION",
                               !.pds_final = B.T[t].pds_final,
                               !.m_kds_final = B.T[t].m_kds_final,
                               !.m_fhash = B.T[t].m_fhash],
                  !.T[t] = [@ EXCEPT !.pds_final = NULL, !.m_kds_final = 0,
                                     !.m_fhash = 0]]

\* "if (gpupreagg_put_final_buffer(...)) gpupreagg_push_terminator_task(...)"
PutAndPushTerminator(B, t, force_detach_buffer) ==
    LET B1 == gpupreagg_put_final_buffer(B, t, FALSE, force_detach_buffer)
    IN  IF B1.ret THEN gpupreagg_push_terminator_task(B1, t) ELSE B1

\* the bundle of the current state, and its installation as the next state
Cur == Bundle(gpa_sstate, pds, gpreagg, ngen, ntask)

Install(B) ==
    /\ gpa_sstate' = B.s
    /\ pds' = B.p
    /\ gpreagg' = B.T
    /\ ngen' = B.ng
    /\ ntask' = B.nt
    /\ crashed' = B.crash
    /\ last_put' = B.put
    /\ lock_calls' = B.calls

Fail == /\ nfail < MaxFail
        /\ nfail' = nfail + 1
NoFail == nfail' = nfail


(* ---------------- actions ---------------- *)

\* gpupreagg_create_task; kds_nrooms is kds_head->nrooms, the rows of the
\* task's working buffer
gpupreagg_create_task(nitems_real) ==
    [NoTask EXCEPT !.st = "pending",
                   !.reduction_mode = IF gpas.num_group_keys = 0
                                      THEN "NOGROUP" ELSE "INVALID",
                   !.nitems_real = nitems_real,
                   !.hash_size = nitems_real,
                   !.kds_nrooms = nitems_real]

\* chunks delivered so far
NChunks == Cardinality({t \in TaskIds : gpreagg[t].st # "none" /\ ~gpreagg[t].clone})

\* gpupreagg_next_task with a chunk: the backend creates the task, counts it
\* and hands it to the GPU server
NextTask ==
    /\ ~crashed
    /\ ~gpas.ended
    /\ ~gpas.scan_done
    /\ NChunks < MaxTasks
    /\ \E is_last_task \in BOOLEAN, rows \in LastChunk :
          /\ ~is_last_task => rows = FullChunk
          /\ gpas' = [gpas EXCEPT !.scan_done = is_last_task]
          /\ gpreagg' = [gpreagg EXCEPT ![ntask + 1] = gpupreagg_create_task(rows)]
          /\ ntask' = ntask + 1
          /\ gpa_sstate' =
                [get_gpupreagg_shared_state(gpa_sstate) EXCEPT
                    !.ntasks_in_progress = Inc32(@),
                    !.scan_done = IF is_last_task THEN TRUE ELSE @]
    /\ last_put' = [called |-> FALSE]
    /\ lock_calls' = {}
    /\ UNCHANGED <<pds, ngen, nfail, crashed>>

\* gpupreagg_next_task when the source has nothing left (pds is NULL): no
\* task, and the shared state is not touched
NextTaskNone ==
    /\ ~crashed
    /\ ~gpas.ended
    /\ ~gpas.scan_done
    /\ gpas' = [gpas EXCEPT !.scan_done = TRUE]
    /\ last_put' = [called |-> FALSE]
    /\ lock_calls' = {}
    /\ UNCHANGED <<gpa_sstate, pds, gpreagg, ngen, ntask, nfail, crashed>>

\* PG_CATCH of gpupreagg_process_task
ProcessTaskCatch(B, t) ==
    LET B1 == gpupreagg_put_final_buffer(gpupreagg_cleanup_cuda_resources(B, t),
                                         t, TRUE, FALSE)
    IN  [B1 EXCEPT !.T[t].st = "thrown"]

\* "Count number of reduction kernel for each"
CountReductionKernel(s, mode) ==
    CASE mode = "NOGROUP" -> [s EXCEPT !.n_tasks_nogrp = Inc32(@)]
      [] mode = "LOCAL"   -> [s EXCEPT !.n_tasks_local = Inc32(@)]
      [] mode = "GLOBAL"  -> [s EXCEPT !.n_tasks_global = Inc32(@)]
      [] mode = "FINAL"   -> [s EXCEPT !.n_tasks_final = Inc32(@)]
      [] OTHER            -> s

\* gpupreagg_process_task on a reduction task:
\* gpupreagg_process_reduction_task under PG_TRY
ProcessReduction(t) ==
    /\ ~crashed
    /\ gpreagg[t].st = "pending"
    /\ gpreagg[t].reduction_mode # "ONLY_TERMINATION"
    /\ LET A == gpupreagg_get_final_buffer(Cur, t, TRUE)
           C == [A EXCEPT !.s = CountReductionKernel(@, A.T[t].reduction_mode)]
       IN  \/ \* attached, private device memory granted, kernel launched
              /\ NoFail
              /\ Install([C EXCEPT !.T[t].m_gpreagg = TRUE,
                                   !.T[t].st = "running"])
           \/ \* no device memory for a new generation: retry later
              /\ gpa_sstate.pds_final = NULL
              /\ Fail
              /\ Install(gpupreagg_get_final_buffer(Cur, t, FALSE))
           \/ \* out_of_resource: attached, but no private device memory
              /\ ~gpreagg[t].m_gpreagg
              /\ Fail
              /\ Install(PutAndPushTerminator(
                            gpupreagg_cleanup_cuda_resources(A, t), t, FALSE))
           \/ \* a CUDA call fails before the attach: elog(ERROR)
              /\ Fail
              /\ Install(ProcessTaskCatch(Cur, t))
           \/ \* a CUDA call fails after the attach: elog(ERROR)
              /\ Fail
              /\ \E counted \in BOOLEAN :
                    Install(ProcessTaskCatch(IF counted THEN C ELSE A, t))
    /\ UNCHANGED gpas

\* gpupreagg_process_task on a terminator: gpupreagg_process_termination_task
ProcessTermination(t) ==
    /\ ~crashed
    /\ gpreagg[t].st = "pending"
    /\ gpreagg[t].reduction_mode = "ONLY_TERMINATION"
    /\ \/ /\ NoFail
          /\ Install([Cur EXCEPT !.T[t].st = "running",
                                 !.T[t].m_gpreagg = gpas.has_notbyval])
       \/ \* out_of_resource: device memory of pds_final is kept
          /\ gpas.has_notbyval
          /\ Fail
          /\ Install(gpupreagg_cleanup_cuda_resources(Cur, t))
       \/ \* a CUDA call fails: elog(ERROR)
          /\ Fail
          /\ Install(ProcessTaskCatch(Cur, t))
    /\ UNCHANGED gpas


\* gpupreagg_respond_task, the statistics merged under the lock
MergeStatistics(s, k) ==
    LET f_nitems == s.f_nitems + k.num_groups
    IN  [s EXCEPT !.f_nitems = f_nitems,
                  !.exec_nrows_in = @ + k.nitems_real,
                  !.exec_ngroups = Max(@, f_nitems)]

\* gpupreagg_respond_task: the CUDA callback of a reduction kernel.  errcode
\* and in_progress are what the kernel left in kern.kerror and
\* kern.final_reduction_in_progress, num_groups in kern.num_groups
RespondReduction(t) ==
    /\ ~crashed
    /\ gpreagg[t].st = "running"
    /\ gpreagg[t].reduction_mode # "ONLY_TERMINATION"
    /\ \E errcode \in Errors, in_progress \in BOOLEAN, num_groups \in KernGroups :
          LET k0 == gpreagg[t]
              g  == k0.pds_final
              k1 == [k0 EXCEPT !.st = "responded",
                               !.kerror = errcode,
                               !.final_reduction_in_progress = in_progress,
                               !.num_groups = IF errcode = "Success"
                                              THEN num_groups ELSE @,
                               !.reduced = @ \/ errcode = "Success"]
          IN  /\ num_groups <= k0.nitems_real
              /\ k0.retry_by_nospace => in_progress
              /\ errcode = "Success" => in_progress
              /\ errcode = "Fatal" => ~in_progress /\ ~k0.retry_by_nospace
              /\ IF errcode = "Success" THEN NoFail ELSE Fail
              /\ gpreagg' = [gpreagg EXCEPT ![t] = k1]
              /\ gpa_sstate' = IF errcode = "Success"
                               THEN MergeStatistics(gpa_sstate, k1)
                               ELSE gpa_sstate
              /\ pds' = [pds EXCEPT ![g].written = @ \/ in_progress]
    /\ last_put' = [called |-> FALSE]
    /\ lock_calls' = {}
    /\ UNCHANGED <<gpas, ngen, ntask, crashed>>

\* gpupreagg_respond_task: the CUDA callback of a terminator
RespondTermination(t) ==
    /\ ~crashed
    /\ gpreagg[t].st = "running"
    /\ gpreagg[t].reduction_mode = "ONLY_TERMINATION"
    /\ \E errcode \in {"Success", "Fatal"} :
          /\ IF errcode = "Success" THEN NoFail ELSE Fail
          /\ gpreagg' = [gpreagg EXCEPT ![t].st = "responded",
                                        ![t].kerror = errcode]
          /\ gpa_sstate' = IF errcode = "Success"
                           THEN MergeStatistics(gpa_sstate, gpreagg[t])
                           ELSE gpa_sstate
    /\ last_put' = [called |-> FALSE]
    /\ lock_calls' = {}
    /\ UNCHANGED <<gpas, pds, ngen, ntask, crashed>>

\* what the GPU server does with the value gpupreagg_complete_task returns:
\* 0 sends the task back to the backend, 1 queues it again, -1 drops it
Dispatch(retval) ==
    CASE retval = 0 -> "backend"
      [] retval = 1 -> "pending"
      [] OTHER      -> "dropped"

\* a faulty completion: a task that is not the terminator goes back to the
\* backend instead of being dropped
CompleteSuccess_returned(B, t) ==
    LET g  == B.T[t].pds_final
        B1 == gpupreagg_cleanup_cuda_resources(B, t)
        B2 == gpupreagg_put_final_buffer(B1, t, FALSE, FALSE)
    IN  IF ~B2.ret
        THEN [B2 EXCEPT !.T[t].st = Dispatch(0)]
        ELSE [B2 EXCEPT !.T[t].reduction_mode = "ONLY_TERMINATION",
                        !.p[g].nterm = Min(@ + 1, 2),
                        !.T[t].st = Dispatch(1)]

\* gpupreagg_complete_task, the task's kernel ended with StromError_Success
CompleteSuccess(B, t) ==
    LET g  == B.T[t].pds_final
        B1 == gpupreagg_cleanup_cuda_resources(B, t)
        B2 == gpupreagg_put_final_buffer(B1, t, FALSE, FALSE)
    IN  IF ~B2.ret
        THEN [B2 EXCEPT !.T[t].st = Dispatch(-1)]
        ELSE [B2 EXCEPT !.T[t].reduction_mode = "ONLY_TERMINATION",
                        !.p[g].nterm = Min(@ + 1, 2),
                        !.T[t].st = Dispatch(1)]

\* a faulty fallback: the task falls back although it touched the final buffer
CompleteCpuReCheck_always(B, t) ==
    LET B1 == gpupreagg_cleanup_cuda_resources(B, t)
        B2 == PutAndPushTerminator(B1, t, FALSE)
    IN  [B2 EXCEPT !.T[t].kerror = "Success",
                   !.T[t].cpu_fallback = TRUE,
                   !.T[t].st = Dispatch(0)]

\* a faulty fallback: the error code stays in the task
CompleteCpuReCheck_keeperror(B, t) ==
    LET B1 == gpupreagg_cleanup_cuda_resources(B, t)
    IN  IF B.T[t].final_reduction_in_progress
        THEN LET B2 == gpupreagg_put_final_buffer(B1, t, TRUE, FALSE)
             IN  [B2 EXCEPT !.T[t].st = Dispatch(0)]
        ELSE LET B2 == PutAndPushTerminator(B1, t, FALSE)
             IN  [B2 EXCEPT !.T[t].cpu_fallback = TRUE,
                            !.T[t].st = Dispatch(0)]

\* gpupreagg_complete_task, StromError_CpuReCheck: CPU fallback unless the
\* task touched the final buffer
CompleteCpuReCheck(B, t) ==
    LET B1 == gpupreagg_cleanup_cuda_resources(B, t)
    IN  IF B.T[t].final_reduction_in_progress
        THEN LET B2 == gpupreagg_put_final_buffer(B1, t, TRUE, FALSE)
             IN  [B2 EXCEPT !.T[t].st = Dispatch(0)]
        ELSE LET B2 == PutAndPushTerminator(B1, t, FALSE)
             IN  [B2 EXCEPT !.T[t].kerror = "Success",
                            !.T[t].cpu_fallback = TRUE,
                            !.T[t].st = Dispatch(0)]

\* a faulty retry: the private device memory is released although the retry
\* skips the DMA send of the source
CompleteNoSpaceFinal_cleanup(B, t) ==
    LET B1 == PutAndPushTerminator(gpupreagg_cleanup_cuda_resources(B, t),
                                   t, TRUE)
    IN  [B1 EXCEPT !.T[t].retry_by_nospace = TRUE,
                   !.T[t].st = Dispatch(1)]

\* gpupreagg_complete_task, StromError_DataStoreNoSpace during the final
\* reduction: switch the final buffer and retry with the remaining tuples;
\* the private device memory is kept
CompleteNoSpaceFinal(B, t) ==
    LET B1 == PutAndPushTerminator(B, t, TRUE)
    IN  [B1 EXCEPT !.T[t].retry_by_nospace = TRUE,
                   !.T[t].st = Dispatch(1)]

\* a faulty reset: the strategy is reset whatever it is
ResetReductionMode_always(reduction_mode) == "INVALID"

\* "Reset reduction strategy, if not NOGROUP_REDUCTION"
ResetReductionMode(reduction_mode) ==
    IF reduction_mode # "NOGROUP" THEN "INVALID" ELSE reduction_mode

\* a faulty retry: the task is marked as one that continues a final reduction
CompleteNoSpaceEarly_retry(B, t) ==
    LET B1 == gpupreagg_cleanup_cuda_resources(B, t)
        B2 == PutAndPushTerminator(B1, t, FALSE)
    IN  [B2 EXCEPT !.T[t].hash_size = Max(@, B.T[t].nitems_real),
                   !.T[t].kds_nrooms = B.T[t].nitems_real,
                   !.T[t].reduction_mode = ResetReductionMode(@),
                   !.T[t].retry_by_nospace = TRUE,
                   !.T[t].st = Dispatch(1)]

\* gpupreagg_complete_task, StromError_DataStoreNoSpace prior to the final
\* reduction: the task starts over with private buffers for nitems_real rows
CompleteNoSpaceEarly(B, t) ==
    LET B1 == gpupreagg_cleanup_cuda_resources(B, t)
        B2 == PutAndPushTerminator(B1, t, FALSE)
    IN  [B2 EXCEPT !.T[t].hash_size = Max(@, B.T[t].nitems_real),
                   !.T[t].kds_nrooms = B.T[t].nitems_real,
                   !.T[t].reduction_mode = ResetReductionMode(@),
                   !.T[t].st = Dispatch(1)]

\* a faulty error path: the task goes back without being detached
CompleteError_noput(B, t) ==
    LET B1 == gpupreagg_cleanup_cuda_resources(B, t)
    IN  [B1 EXCEPT !.T[t].st = Dispatch(0)]

\* gpupreagg_complete_task, any other error: "raise an error on the backend
\* side"
CompleteError(B, t) ==
    LET B1 == gpupreagg_cleanup_cuda_resources(B, t)
        B2 == gpupreagg_put_final_buffer(B1, t, TRUE, FALSE)
    IN  [B2 EXCEPT !.T[t].st = Dispatch(0)]

\* gpupreagg_complete_task
gpupreagg_complete_task(B, t) ==
    LET k == B.T[t]
        g == k.pds_final
    IN  CASE k.reduction_mode = "ONLY_TERMINATION" ->
                LET B1 == [B EXCEPT !.p[g].nfree = Min(@ + 1, 2),
                                    !.T[t].m_kds_final = 0,
                                    !.T[t].m_fhash = 0,
                                    !.T[t].key_dist_salt = 0]
                    B2 == gpupreagg_cleanup_cuda_resources(B1, t)
                IN  [B2 EXCEPT !.T[t].st = Dispatch(0)]
          [] k.reduction_mode # "ONLY_TERMINATION" /\ k.kerror = "Success" ->
                CompleteSuccess(B, t)
          [] k.reduction_mode # "ONLY_TERMINATION" /\ k.kerror = "CpuReCheck" ->
                CompleteCpuReCheck(B, t)
          [] k.reduction_mode # "ONLY_TERMINATION" /\ k.kerror = "DataStoreNoSpace" ->
                IF k.final_reduction_in_progress
                THEN CompleteNoSpaceFinal(B, t)
                ELSE CompleteNoSpaceEarly(B, t)
          [] OTHER ->
                CompleteError(B, t)

\* the GPU server runs gpupreagg_complete_task on a task whose callback ran
Complete(t) ==
    /\ ~crashed
    /\ gpreagg[t].st = "responded"
    /\ Install(gpupreagg_complete_task(Cur, t))
    /\ UNCHANGED <<gpas, nfail>>

Next ==
    \/ NextTask
    \/ NextTaskNone
    \/ \E t \in TaskIds : ProcessReduction(t)
    \/ \E t \in TaskIds : ProcessTermination(t)
    \/ \E t \in TaskIds : RespondReduction(t)
    \/ \E t \in TaskIds : RespondTermination(t)
    \/ \E t \in TaskIds : Complete(t)

Spec == Init /\ [][Next]_vars

TypeOK ==
    /\ gpa_sstate.ntasks_in_progress \in Int
    /\ \A t \in TaskIds : gpreagg[t].reduction_mode \in Modes
    /\ ngen \in 0 .. (MaxFail + 1)
    /\ ntask \in 0 .. (MaxTasks + MaxFail)

\* gpupreagg_switch_task: does the backend raise the task's error?
gpupreagg_switch_task(k) == k.kerror # "Success"

(* ---------------- rescan, release and end of the node ---------------- *)
\* The executor may rescan the node once the source is drained and ends it at
\* any time; the tasks that left the GPU server are released one by one.

\* put_gpupreagg_shared_state; at 0 the shared state is freed
put_gpupreagg_shared_state(s) ==
    [s EXCEPT !.refcnt = Dec32(@)]

\* a release that also gives back the task's reference to the shared state
gpupreagg_release_task_put(B, t) ==
    [B EXCEPT !.T[t].st = "released",
              !.s = put_gpupreagg_shared_state(@)]

\* gpupreagg_release_task: the chunk and the task's reference to its final
\* buffer are released, the task object is freed; gpa_sstate is not touched
gpupreagg_release_task(B, t) ==
    [B EXCEPT !.T[t].st = "released"]

\* the task object is released once it left the GPU server: by the backend
\* after it consumed the task, by the server when the task was dropped or
\* its handler threw
ReleaseTask(t) ==
    /\ ~crashed
    /\ gpreagg[t].st \in {"backend", "dropped", "thrown"}
    /\ LET B == gpupreagg_release_task(Cur, t)
       IN  /\ gpreagg' = B.T
           /\ gpa_sstate' = B.s
    /\ last_put' = [called |-> FALSE]
    /\ lock_calls' = {}
    /\ UNCHANGED <<pds, gpas, ngen, ntask, nfail, crashed>>

\* ExecEndGpuPreAgg: "release the shared status"
ExecEndGpuPreAgg ==
    /\ ~crashed
    /\ ~gpas.ended
    /\ gpas' = [gpas EXCEPT !.ended = TRUE]
    /\ gpa_sstate' = put_gpupreagg_shared_state(gpa_sstate)
    /\ last_put' = [called |-> FALSE]
    /\ lock_calls' = {}
    /\ UNCHANGED <<pds, gpreagg, ngen, ntask, nfail, crashed>>

\* ExecReScanGpuPreAgg: "rewind the position to read"; the shared state is
\* the one made by ExecInitGpuPreAgg and is not touched
ExecReScanGpuPreAgg ==
    /\ ~crashed
    /\ ~gpas.ended
    /\ gpas.scan_done
    /\ gpas' = [gpas EXCEPT !.scan_done = FALSE]
    /\ last_put' = [called |-> FALSE]
    /\ lock_calls' = {}
    /\ UNCHANGED <<gpa_sstate, pds, gpreagg, ngen, ntask, nfail, crashed>>

LifeNext ==
    \/ Next
    \/ \E t \in TaskIds : ReleaseTask(t)
    \/ ExecEndGpuPreAgg
    \/ ExecReScanGpuPreAgg

LifeSpec == Init /\ [][LifeNext]_vars

(* ---------------- the buffer sizing on its own ---------------- *)
\* adjust_final_buffer_size is applied to shared states whose statistics are
\* merged chunk by chunk.  head_sz and unit_sz are the head length and the
\* row length of kds_final (KDS_CALCULATE_HEAD_LENGTH and STROMALIGN of
\* f_ncols and f_extra_sz), chunk_sz is pgstrom_chunk_size().

MaxSizeMerges == 3          \* merges of statistics, in units of UnderSampled rows
SizePlanNRowsIn == {2001, 10000}
SizePlanNGroups == {0, 41, 100, 204, 205, 1001, 2000, 40000}
SizeRows    == {400, 1000}
SizeGroups  == {300, 900}
SizeHeadSz  == {128}
SizeUnitSz  == {16, 24}
SizeChunkSz == {65536}

\* "f_nrooms will have 250% of the nrooms for the estimated ngroups":
\* (double)(curr_ngroups * f_key_dist_salt) * 2.5 + 200.0, stored in a size_t
NaiveNRooms(curr_ngroups, f_key_dist_salt) ==
    (5 * (curr_ngroups * f_key_dist_salt)) \div 2 + FixedMargin

\* "Expand nrooms if estimated length of the kds_final is small"
ExpandNRooms(f_nrooms, head_sz, unit_sz, chunk_sz) ==
    LET length == head_sz + unit_sz * f_nrooms
    IN  IF length < chunk_sz \div 2
        THEN (chunk_sz - head_sz) \div unit_sz
        ELSE IF length < chunk_sz
        THEN (2 * chunk_sz - head_sz) \div unit_sz
        ELSE IF length < 3 * chunk_sz
        THEN (3 * chunk_sz - head_sz) \div unit_sz
        ELSE f_nrooms

\* a faulty hash size: as many slots as rooms
HashSize_same(f_nrooms) == f_nrooms

\* "*p_hashsize = 2 * f_nrooms"
HashSize(f_nrooms) == 2 * f_nrooms

\* devBaselineMaxThreadsPerBlock / (5 * curr_ngroups) divides by zero when the
\* group estimate is 0.  The behaviour is undefined: the division traps
\* (SIGFPE), or it leaves some quotient in the register.
DivZeroQuotients == {0, 4095}

DividesByZero(s) == 5 * CurrNGroups(s) = 0

\* adjust_final_buffer_size; quotient is what a division by zero yielded
adjust_final_buffer_size(s, quotient) ==
    LET curr_ngroups    == CurrNGroups(s)
        f_key_dist_salt == IF DividesByZero(s)
                           THEN Max(quotient, 1)
                           ELSE KeyDistSalt(curr_ngroups)
        naive           == NaiveNRooms(curr_ngroups, f_key_dist_salt)
        f_nrooms        == ExpandNRooms(naive, s.head_sz, s.unit_sz, s.chunk_sz)
    IN  [sized |-> TRUE,
         estimate |-> IF s.exec_nrows_in < UnderSampled THEN "plan" ELSE "growth",
         curr_nrows_in |-> IF s.exec_nrows_in < UnderSampled
                           THEN 0 ELSE CurrNRowsIn(s),
         curr_ngroups |-> curr_ngroups,
         key_dist_salt |-> f_key_dist_salt,
         naive |-> naive,
         f_nrooms |-> f_nrooms,
         f_hashsize |-> HashSize(f_nrooms),
         div_by_zero |-> DividesByZero(s)]

NotSized ==
    [sized |-> FALSE, estimate |-> "none", curr_nrows_in |-> 0,
     curr_ngroups |-> 0, key_dist_salt |-> 0, naive |-> 0, f_nrooms |-> 0,
     f_hashsize |-> 0, div_by_zero |-> FALSE]

\* the final buffer gpupreagg_alloc_final_buffer creates from the sizes
SizedBuffer == pds[2]

\* what adjust_final_buffer_size returned for the current statistics
Sized == pds[1]

SizeInit ==
    /\ \E nr \in SizePlanNRowsIn, ng \in SizePlanNGroups,
          h \in SizeHeadSz, u \in SizeUnitSz, c \in SizeChunkSz :
          gpa_sstate = create_gpupreagg_shared_state(nr, ng)
                       @@ [head_sz |-> h, unit_sz |-> u, chunk_sz |-> c]
    /\ gpas = [num_group_keys |-> 1, has_notbyval |-> TRUE, scan_done |-> FALSE,
               ended |-> FALSE]
    /\ gpreagg = [t \in TaskIds |-> NoTask]
    /\ pds = [g \in GenIds |-> IF g = 1 THEN NotSized ELSE NoGen]
    /\ ngen = 0
    /\ ntask = 0
    /\ nfail = 0
    /\ crashed = FALSE
    /\ last_put = [called |-> FALSE]
    /\ lock_calls = {}

SizeFrame ==
    UNCHANGED <<gpreagg, gpas, ngen, ntask, nfail, last_put, lock_calls>>

\* gpupreagg_respond_task merges the statistics of one more chunk
SizeMerge ==
    /\ ~crashed
    /\ gpa_sstate.exec_nrows_in < MaxSizeMerges * UnderSampled
    /\ \E rows \in SizeRows, n \in SizeGroups :
          /\ n <= rows
          /\ gpa_sstate' = MergeStatistics(gpa_sstate,
                                           [num_groups |-> n, nitems_real |-> rows])
    /\ pds' = [pds EXCEPT ![1] = NotSized, ![2] = NoGen]
    /\ UNCHANGED crashed
    /\ SizeFrame

\* gpupreagg_alloc_final_buffer asks for the size of the next final buffer
SizeAdjust ==
    /\ ~crashed
    /\ ~Sized.sized
    /\ \E trap \in IF DividesByZero(gpa_sstate) THEN BOOLEAN ELSE {FALSE},
          o \in IF DividesByZero(gpa_sstate) THEN DivZeroQuotients ELSE {0} :
          IF trap
          THEN /\ crashed' = TRUE
               /\ pds' = [pds EXCEPT ![1] = [NotSized EXCEPT !.div_by_zero = TRUE]]
          ELSE /\ crashed' = FALSE
               /\ pds' = [pds EXCEPT ![1] = adjust_final_buffer_size(gpa_sstate, o)]
    /\ UNCHANGED gpa_sstate
    /\ SizeFrame

\* gpupreagg_alloc_final_buffer: PDS_duplicate_slot is given f_nrooms, the
\* device memory holds hash_slot[f_hashsize], and gpa_sstate->f_nrooms takes
\* pds_final->kds.nrooms
SizeAlloc ==
    /\ ~crashed
    /\ Sized.sized
    /\ SizedBuffer = NoGen
    /\ pds' = [pds EXCEPT ![2] = [NoGen EXCEPT !.key_dist_salt = Sized.key_dist_salt]
                                  @@ [kds_nrooms |-> Sized.f_nrooms,
                                      hash_size |-> Sized.f_hashsize]]
    /\ gpa_sstate' = [gpa_sstate EXCEPT !.f_key_dist_salt = Sized.key_dist_salt,
                                        !.f_nitems = 0]
    /\ UNCHANGED crashed
    /\ SizeFrame

SizeNext == SizeMerge \/ SizeAdjust \/ SizeAlloc

SizeSpec == SizeInit /\ [][SizeNext]_vars

(* ---------------- the strategy decision on its own ---------------- *)
\* One task with grouping keys goes through its decisions while the shared
\* statistics move: kernels are counted at launch, statistics are merged by
\* the callbacks, and DataStoreNoSpace prior to the final reduction resets the
\* task's strategy.  first_mode / first_exec remember the task's first
\* decision and the exec_ngroups it was taken with.

MaxCounted == 31            \* reduction kernels counted at most
MaxMerged  == 5             \* statistics merged at most
SelPlanNGroups == {100, 256}
SelRows == {400, 1027, 5000}

SelNumTasks(s) ==
    s.n_tasks_nogrp + s.n_tasks_local + s.n_tasks_global + s.n_tasks_final

SelTask == gpreagg[1]

SelInit ==
    /\ \E nr \in PlanNRowsIn, ng \in SelPlanNGroups :
          gpa_sstate = create_gpupreagg_shared_state(nr, ng)
    /\ gpas = [num_group_keys |-> 1, has_notbyval |-> TRUE, scan_done |-> FALSE,
               ended |-> FALSE]
    /\ \E rows \in SelRows :
          gpreagg = [t \in TaskIds |->
                        IF t = 1
                        THEN gpupreagg_create_task(rows)
                             @@ [first_mode |-> "INVALID", first_exec |-> 0]
                        ELSE NoTask]
    /\ pds = [g \in GenIds |-> NoGen]
    /\ ngen = 0
    /\ ntask = 1
    /\ nfail = 0
    /\ crashed = FALSE
    /\ last_put = [called |-> FALSE]
    /\ lock_calls = {}

SelFrame ==
    UNCHANGED <<pds, gpas, ngen, ntask, nfail, crashed, last_put, lock_calls>>

\* gpupreagg_get_final_buffer decides the strategy of the task
SelDecide ==
    /\ SelTask.reduction_mode = "INVALID"
    /\ LET k == DecideReductionMode(gpa_sstate, SelTask)
       IN  gpreagg' = [gpreagg EXCEPT ![1] =
                          IF k.first_mode = "INVALID"
                          THEN [k EXCEPT !.first_mode = k.reduction_mode,
                                         !.first_exec = gpa_sstate.exec_ngroups]
                          ELSE k]
    /\ UNCHANGED gpa_sstate
    /\ SelFrame

\* gpupreagg_process_reduction_task counts the kernel it launches, for this
\* task or for another one of the same strategy
SelCount ==
    /\ SelTask.reduction_mode \in {"LOCAL", "GLOBAL", "FINAL"}
    /\ SelNumTasks(gpa_sstate) < MaxCounted
    /\ gpa_sstate' = CountReductionKernel(gpa_sstate, SelTask.reduction_mode)
    /\ UNCHANGED gpreagg
    /\ SelFrame

\* gpupreagg_respond_task merges the statistics of a kernel that was counted
SelMerge ==
    /\ gpa_sstate.exec_nrows_in < FullChunk * MaxMerged
    /\ gpa_sstate.exec_nrows_in < FullChunk * SelNumTasks(gpa_sstate)
    /\ \E n \in KernGroups :
          gpa_sstate' = MergeStatistics(gpa_sstate,
                                        [num_groups |-> n, nitems_real |-> FullChunk])
    /\ UNCHANGED gpreagg
    /\ SelFrame

\* gpupreagg_complete_task on DataStoreNoSpace prior to the final reduction
SelReset ==
    /\ SelTask.reduction_mode \in {"LOCAL", "GLOBAL", "FINAL"}
    /\ gpreagg' = [gpreagg EXCEPT ![1].reduction_mode = ResetReductionMode(@)]
    /\ UNCHANGED gpa_sstate
    /\ SelFrame

SelNext == SelDecide \/ SelCount \/ SelMerge \/ SelReset

SelSpec == SelInit /\ [][SelNext]_vars

(* ---------------- vocabulary of the claims ---------------- *)

IsTerminator(t) == gpreagg[t].reduction_mode = "ONLY_TERMINATION"

\* reduction tasks that hold generation g as their attached buffer
Attached(g) ==
    {t \in TaskIds : gpreagg[t].st # "none" /\ ~IsTerminator(t)
                     /\ gpreagg[t].pds_final = g}

\* reduction tasks created by gpupreagg_next_task and not yet completed for
\* good (a task waiting to be retried is still in progress)
InProgress ==
    {t \in TaskIds : ~gpreagg[t].clone /\ ~IsTerminator(t)
                     /\ gpreagg[t].st \in {"pending", "running", "responded"}}

\* terminators of g whose finalize step has started
Finalizing(g) ==
    {t \in TaskIds : IsTerminator(t) /\ gpreagg[t].pds_final = g
                     /\ gpreagg[t].st \in {"running", "responded", "backend"}}

\* every task has left the GPU server, none of them with an error
Quiescent ==
    /\ ~crashed
    /\ gpa_sstate.scan_done
    /\ \A t \in TaskIds : gpreagg[t].st \in {"none", "backend", "dropped"}
    /\ \A t \in TaskIds : gpreagg[t].kerror = "Success"

RECURSIVE SumRows(_)
SumRows(S) ==
    IF S = {} THEN 0
    ELSE LET t == CHOOSE x \in S : TRUE
         IN  gpreagg[t].nitems_real + SumRows(S \ {t})

(* ---------------- claims ---------------- *)

\* C1: for every generation, the finalize step (a task promoted to
\* ONLY_TERMINATION or a cloned terminator) is started at most once.
C1_FinalizeAtMostOnce ==
    \A g \in GenIds : pds[g].nterm <= 1

\* C2: once the scan is done and every task has left the GPU server without
\* error, every generation rows were reduced into has been finalized by a
\* terminator and handed to the consumer.
C2_EveryWrittenGenerationReturned ==
    Quiescent =>
        \A g \in GenIds :
            pds[g].written =>
                \E t \in TaskIds : /\ IsTerminator(t)
                                   /\ gpreagg[t].st = "backend"
                                   /\ gpreagg[t].pds_final = g

\* C3: when a terminator runs the finalize step on a generation, or its
\* device memory has been freed, no reduction task is attached to it, and its
\* device memory is freed at most once.
C3_FinalizeOnlyWhenDrained ==
    \A g \in GenIds :
        /\ (Finalizing(g) # {} \/ pds[g].nfree > 0) =>
               (pds[g].ntasks_running = 0 /\ Attached(g) = {})
        /\ pds[g].nfree <= 1

\* C4: ntasks_in_progress is the number of reduction tasks created and not
\* yet completed for good, so it is never decremented at 0.
C4_InProgressCounter ==
    gpa_sstate.ntasks_in_progress = Cardinality(InProgress)

\* C5: ntasks_running of a generation is the number of reduction tasks
\* attached to it, and is never decremented at 0.
C5_RunningCounter ==
    \A g \in GenIds : pds[g].ntasks_running = Cardinality(Attached(g))

\* C9: after all tasks have completed, exec_nrows_in is the sum of nitems_real
\* over the chunks whose reduction succeeded: no chunk is merged twice.
C9_RowsMergedOnce ==
    Quiescent =>
        gpa_sstate.exec_nrows_in =
            SumRows({t \in TaskIds : gpreagg[t].reduced})

\* C6: gpupreagg_put_final_buffer returns true exactly when, after its
\* decrements, (a) ntasks_in_progress is 0 and scan_done is set, or (b) the
\* task's generation is not the current buffer and its ntasks_running is 0;
\* when it returns false the task has dropped its reference.
C6_PutReturnValue ==
    last_put.called =>
        LET g == last_put.gen
            t == last_put.task
        IN  /\ last_put.ret <=>
                  \/ gpa_sstate.ntasks_in_progress = 0 /\ gpa_sstate.scan_done
                  \/ gpa_sstate.pds_final # g /\ pds[g].ntasks_running = 0
            /\ ~last_put.ret => gpreagg[t].pds_final = NULL

C6_Witness ==
    /\ last_put.called
    /\ last_put.ret
    /\ gpa_sstate.ntasks_in_progress # 0
    /\ gpa_sstate.pds_final # last_put.gen
    /\ gpreagg[last_put.task].kerror = "Success"

\* a generation that exists and is not the current buffer stays so, and no
\* task attaches to it
SupersededStaysSuperseded ==
    \A g \in GenIds :
        (g <= ngen /\ gpa_sstate.pds_final # g) =>
            /\ gpa_sstate'.pds_final # g
            /\ pds'[g].ntasks_running <= pds[g].ntasks_running
            /\ \A t \in TaskIds :
                  (~IsTerminator(t)' /\ gpreagg'[t].pds_final = g) =>
                      gpreagg[t].pds_final = g

\* the detach that follows DataStoreNoSpace during final reduction
\* (force_detach_buffer) leaves the generation superseded, and pushes a
\* terminator at once if no task is attached any more
ForcedDetach ==
    (last_put.called /\ last_put.force) =>
        LET g == last_put.gen
        IN  /\ gpa_sstate.pds_final # g
            /\ pds[g].ntasks_running = 0 =>
                  /\ gpreagg[ntask].clone
                  /\ gpreagg[ntask].st = "pending"
                  /\ gpreagg[ntask].reduction_mode = "ONLY_TERMINATION"
                  /\ gpreagg[ntask].pds_final = g

\* C7: on DataStoreNoSpace during final reduction the task's generation stops
\* being the current buffer in the detach itself, no task attaches to it
\* afterwards, it never becomes current again, and a terminator is pushed at
\* once when its ntasks_running reached 0.
C7_SupersededOnNoSpace ==
    []ForcedDetach /\ [][SupersededStaysSuperseded]_vars

C7_Witness ==
    /\ last_put.called
    /\ last_put.force
    /\ pds[last_put.gen].ntasks_running = 0
    /\ gpreagg[ntask].clone
    /\ gpreagg[ntask].pds_final = last_put.gen
    /\ gpreagg[last_put.task].retry_by_nospace

\* a reduction task between its attach and its detach
Working(t) ==
    ~IsTerminator(t) /\ gpreagg[t].st \in {"running", "responded"}

FinalOf(k) == <<k.pds_final, k.m_kds_final, k.m_fhash, k.key_dist_salt>>

\* C8: between attach and detach the generation a task works on (pds_final,
\* m_kds_final, m_fhash, key_dist_salt) is the one it attached to and does not
\* change, whatever other tasks do.
C8_GenerationStableWhileAttached ==
    /\ [](\A t \in TaskIds :
             Working(t) =>
                 LET g == gpreagg[t].pds_final
                 IN  /\ g \in 1 .. ngen
                     /\ FinalOf(gpreagg[t]) = <<g, g, g, pds[g].key_dist_salt>>)
    /\ [][\A t \in TaskIds :
             (Working(t) /\ Working(t)') =>
                 FinalOf(gpreagg'[t]) = FinalOf(gpreagg[t])]_vars

C8_Witness ==
    \E t \in TaskIds :
        /\ Working(t)
        /\ gpa_sstate.pds_final # NULL
        /\ gpa_sstate.pds_final # gpreagg[t].pds_final
        /\ gpa_sstate.f_key_dist_salt # gpreagg[t].key_dist_salt

\* the reduction task t left gpupreagg_complete_task in this step
Completed(t) ==
    /\ ~IsTerminator(t)
    /\ gpreagg[t].st = "responded"
    /\ gpreagg'[t].st # "responded"

\* C10: a task becomes a terminator only when its own reduction succeeded and
\* its detach returned true, and it is then dispatched again; a successful
\* task whose detach returned false is dropped, not handed to the consumer; a
\* task that is retried or falls back and whose detach returned true hands the
\* generation to a cloned terminator.
C10_Step ==
    \A t \in TaskIds :
        /\ (gpreagg[t].st # "none" /\ ~IsTerminator(t) /\ IsTerminator(t)') =>
              /\ Completed(t)
              /\ gpreagg[t].kerror = "Success"
              /\ last_put'.called /\ last_put'.task = t /\ last_put'.ret
              /\ gpreagg'[t].st = "pending"
        /\ (Completed(t) /\ gpreagg[t].kerror = "Success" /\ ~last_put'.ret) =>
              gpreagg'[t].st = "dropped"
        /\ (/\ ~IsTerminator(t) /\ gpreagg[t].st # "none"
            /\ last_put'.called /\ last_put'.task = t /\ last_put'.ret
            /\ ~last_put'.release
            /\ ~(Completed(t) /\ gpreagg[t].kerror = "Success")) =>
              /\ ~IsTerminator(t)'
              /\ gpreagg'[t].pds_final = NULL
              /\ gpreagg'[t].st = "pending" \/ gpreagg'[t].cpu_fallback
              /\ ntask' = ntask + 1
              /\ gpreagg'[ntask'].clone
              /\ gpreagg'[ntask'].reduction_mode = "ONLY_TERMINATION"
              /\ gpreagg'[ntask'].st = "pending"
              /\ gpreagg'[ntask'].pds_final = last_put'.gen

C10_PromotionAndClone == [][C10_Step]_vars

C10_Witness ==
    /\ last_put.called
    /\ last_put.ret
    /\ ~gpreagg[last_put.task].clone
    /\ IsTerminator(last_put.task)
    /\ gpreagg[last_put.task].st = "pending"
    /\ gpreagg[last_put.task].pds_final = last_put.gen

\* the task t went through out_of_resource of gpupreagg_process_reduction_task
\* in this step: it stays queued and was detached
OutOfResource(t) ==
    /\ gpreagg[t].st = "pending"
    /\ gpreagg'[t].st = "pending"
    /\ ~IsTerminator(t)
    /\ last_put'.called
    /\ last_put'.task = t

\* C11: a reduction task dispatched with retry_by_nospace set still owns the
\* private device memory (m_gpreagg) of its previous attempt, and such a task
\* never takes the out_of_resource path.
C11_RetryKeepsDeviceMemory ==
    /\ [](\A t \in TaskIds :
             (gpreagg[t].st = "pending" /\ ~IsTerminator(t)
              /\ gpreagg[t].retry_by_nospace) => gpreagg[t].m_gpreagg)
    /\ [][\A t \in TaskIds :
             OutOfResource(t) => ~gpreagg[t].retry_by_nospace]_vars

\* a retried task is launched again on a new generation
C11_Witness ==
    \E t \in TaskIds :
        /\ gpreagg[t].st = "running"
        /\ ~IsTerminator(t)
        /\ gpreagg[t].retry_by_nospace
        /\ gpreagg[t].m_gpreagg
        /\ gpreagg[t].pds_final > 1

Decided == {"LOCAL", "GLOBAL", "FINAL"}

\* C12: once the reduction strategy of a task with grouping keys is decided it
\* does not change any more across the task's retries, except by the promotion
\* to ONLY_TERMINATION.
C12_StrategyFrozen ==
    [][\A t \in TaskIds :
          gpreagg[t].reduction_mode \in Decided =>
              gpreagg'[t].reduction_mode
                  \in {gpreagg[t].reduction_mode, "ONLY_TERMINATION"}]_vars

\* the task t got its strategy decided in this step
DecidedNow(t) ==
    /\ gpreagg[t].st # "none"
    /\ gpreagg[t].reduction_mode = "INVALID"
    /\ gpreagg'[t].reduction_mode # "INVALID"

\* the strategy for a blended estimate of g30 / 30 groups and a chunk of rows
\* rows, with the thresholds taken as exact quotients
StrategyOf(g30, rows) ==
    IF 4 * g30 < MaxRatioTasks * devBaselineMaxThreadsPerBlock THEN "LOCAL"
    ELSE IF 4 * g30 < MaxRatioTasks * rows THEN "GLOBAL"
    ELSE "FINAL"

\* C13: the strategy chosen for a task with grouping keys is Local when the
\* blended estimate g is below the device-parallelism-unit / 4, otherwise
\* Global when g is below the chunk's row count / 4, otherwise Final.
C13_StrategyThresholds ==
    [][\A t \in TaskIds :
          DecidedNow(t) =>
              gpreagg'[t].reduction_mode =
                  StrategyOf(RealNGroups30(gpa_sstate), gpreagg[t].nitems_real)]_vars

\* reduction tasks whose statistics have been merged into the shared state
Merged == {t \in TaskIds : gpreagg[t].reduced}

\* C14: the number of tasks that sets the weight Min(c, 30) / 30 of the
\* observed group count is the number of tasks whose statistics have been
\* merged: a task that was only launched, or a retry, does not raise it.
C14_WeightCountsCompletedTasks ==
    SelNumTasks(gpa_sstate) = Cardinality(Merged)

\* C15: without grouping keys every reduction task is in mode NOGROUP from
\* gpupreagg_create_task through every retry: it is never undecided and never
\* gets a strategy from the blend.
C15_NoGroupKeepsMode ==
    gpas.num_group_keys = 0 =>
        \A t \in TaskIds :
            (gpreagg[t].st # "none" /\ ~IsTerminator(t)) =>
                gpreagg[t].reduction_mode = "NOGROUP"

\* a task without grouping keys queued again after DataStoreNoSpace prior to
\* the final reduction
C15_Witness ==
    /\ gpas.num_group_keys = 0
    /\ \E t \in TaskIds :
          /\ gpreagg[t].st = "pending"
          /\ gpreagg[t].kerror = "DataStoreNoSpace"
          /\ ~gpreagg[t].final_reduction_in_progress
          /\ gpreagg[t].reduction_mode = "NOGROUP"
          /\ last_put.called
          /\ last_put.task = t

\* C16: two decisions for one task taken with the same planner estimate and
\* the same observed group count give the same strategy, whatever else changed
\* in the shared state between them.
C16_SameEstimatesSameStrategy ==
    (/\ SelTask.first_mode # "INVALID"
     /\ SelTask.reduction_mode # "INVALID"
     /\ gpa_sstate.exec_ngroups = SelTask.first_exec) =>
        SelTask.reduction_mode = SelTask.first_mode

\* the task t is switched to CPU fallback in this step
FallsBack(t) == ~gpreagg[t].cpu_fallback /\ gpreagg'[t].cpu_fallback

\* a terminator for generation g was cloned in this step
TerminatorPushed(g) ==
    /\ ntask' = ntask + 1
    /\ gpreagg'[ntask'].clone
    /\ gpreagg'[ntask'].reduction_mode = "ONLY_TERMINATION"
    /\ gpreagg'[ntask'].st = "pending"
    /\ gpreagg'[ntask'].pds_final = g

C18_Step ==
    \A t \in TaskIds :
        /\ FallsBack(t) <=> (/\ Completed(t)
                             /\ gpreagg[t].kerror = "CpuReCheck"
                             /\ ~gpreagg[t].final_reduction_in_progress)
        /\ FallsBack(t) =>
              LET g == gpreagg[t].pds_final
              IN  /\ gpreagg'[t].kerror = "Success"
                  /\ gpreagg'[t].st = "backend"
                  /\ gpreagg'[t].pds_final = NULL
                  /\ last_put'.called /\ last_put'.task = t /\ last_put'.gen = g
                  /\ pds'[g].ntasks_running = pds[g].ntasks_running - 1
                  /\ gpa_sstate'.ntasks_in_progress
                         = gpa_sstate.ntasks_in_progress - 1
                  /\ IF last_put'.ret THEN TerminatorPushed(g)
                                      ELSE ntask' = ntask

\* C18: a task is switched to CPU fallback (cpu_fallback set, error cleared)
\* exactly when its kernel reported CpuReCheck with final_reduction_in_progress
\* false; the task is then detached from its generation (one decrement of each
\* counter), and a terminator is pushed for the generation if the detach
\* returned true.
C18_CpuFallback == [][C18_Step]_vars

\* a task fell back and its detach pushed a terminator
C18_Witness ==
    /\ last_put.called
    /\ last_put.ret
    /\ gpreagg[last_put.task].cpu_fallback
    /\ gpreagg[last_put.task].st = "backend"
    /\ gpreagg[ntask].clone
    /\ gpreagg[ntask].st = "pending"
    /\ gpreagg[ntask].pds_final = last_put.gen

\* the reduction task t completes with an error that cannot be recovered
FatalCompletion(t) ==
    /\ Completed(t)
    /\ \/ gpreagg[t].kerror = "Fatal"
       \/ /\ gpreagg[t].kerror = "CpuReCheck"
          /\ gpreagg[t].final_reduction_in_progress

C19_Step ==
    \A t \in TaskIds :
        FatalCompletion(t) =>
            LET g == gpreagg[t].pds_final
            IN  /\ gpreagg'[t].st = "backend"
                /\ gpreagg'[t].kerror = gpreagg[t].kerror
                /\ gpupreagg_switch_task(gpreagg'[t])
                /\ last_put'.called /\ last_put'.task = t /\ last_put'.gen = g
                /\ pds'[g].ntasks_running = pds[g].ntasks_running - 1
                /\ gpa_sstate'.ntasks_in_progress
                       = gpa_sstate.ntasks_in_progress - 1
                /\ ntask' = ntask
                /\ IF last_put'.ret
                   THEN /\ pds'[g].nfree = Min(pds[g].nfree + 1, 2)
                        /\ gpreagg'[t].pds_final = NULL
                   ELSE pds'[g].nfree = pds[g].nfree

\* C19: a task whose kernel ended with an unrecoverable error, or with
\* CpuReCheck after it started writing into the final buffer, goes back to the
\* backend with its error code, so that gpupreagg_switch_task raises it; it
\* has been detached once (one decrement of ntasks_in_progress and of its
\* generation's ntasks_running), and the generation's device memory is
\* released when the detach found it to be the last holder.
C19_FatalErrorAccounting == [][C19_Step]_vars

\* a failed task at the backend whose detach released the generation
C19_Witness ==
    /\ last_put.called
    /\ last_put.ret
    /\ last_put.release
    /\ gpreagg[last_put.task].st = "backend"
    /\ gpreagg[last_put.task].kerror = "Fatal"
    /\ pds[last_put.gen].nfree = 1

\* C20: a task at the backend makes gpupreagg_switch_task raise an error only
\* for a fatal condition (an unrecoverable error, or CpuReCheck after the task
\* wrote into the final buffer): out of memory, DataStoreNoSpace and CpuReCheck
\* before any shared write never reach the consumer as an error.
C20_OnlyFatalErrorsSurface ==
    \A t \in TaskIds :
        (gpreagg[t].st = "backend" /\ gpupreagg_switch_task(gpreagg[t])) =>
            \/ gpreagg[t].kerror = "Fatal"
            \/ /\ gpreagg[t].kerror = "CpuReCheck"
               /\ gpreagg[t].final_reduction_in_progress

\* a task retried after DataStoreNoSpace and a task that fell back to the CPU
\* are both at the backend without error
C20_Witness ==
    /\ \E t \in TaskIds : /\ gpreagg[t].st = "backend"
                          /\ gpreagg[t].retry_by_nospace
                          /\ ~gpupreagg_switch_task(gpreagg[t])
    /\ \E t \in TaskIds : /\ gpreagg[t].st = "backend"
                          /\ gpreagg[t].cpu_fallback
                          /\ ~gpupreagg_switch_task(gpreagg[t])

\* the task objects that exist: created or cloned, and not yet released
LiveTasks == {t \in TaskIds : gpreagg[t].st \notin {"none", "released"}}

C22_RefcountBalanced ==
    gpa_sstate.refcnt =
        (IF gpas.ended THEN 0 ELSE 1) + Cardinality(LiveTasks)

\* device memory allocation, kernel launch and stream synchronisation
BlockingCalls == {"gpuMemAlloc", "cuLaunchKernel", "cuStreamSynchronize"}

\* C23: no handler allocates device memory, launches a kernel or synchronises
\* a stream between SpinLockAcquire and SpinLockRelease of gpa_sstate->lock.
C23_NoDeviceCallUnderLock ==
    lock_calls \cap BlockingCalls = {}

\* the tasks gpupreagg_next_tuple is run on: handed to the backend, and
\* gpupreagg_switch_task raised no error for them
Consumed ==
    {t \in TaskIds : gpreagg[t].st = "backend"
                     /\ ~gpupreagg_switch_task(gpreagg[t])}

\* gpupreagg_next_tuple: the final buffer it reads, NULL when it takes the
\* rows from the source chunk instead
gpupreagg_next_tuple(k) ==
    IF k.cpu_fallback THEN NULL ELSE k.pds_final

\* the finalize step of generation g is complete: gpupreagg_complete_task ran
\* for a terminator of g and released the generation's device memory
Finalized(g) == pds[g].nfree >= 1

\* C24: a task handed to the consumer without error is either a CPU-fallback
\* task, which holds no final buffer, or a terminator that holds a generation
\* whose finalize step is complete; gpupreagg_next_tuple reads no other
\* buffer.
C24_ConsumerReadsFinalizedBuffer ==
    \A t \in Consumed :
        IF gpreagg[t].cpu_fallback
        THEN gpreagg[t].pds_final = NULL
        ELSE /\ IsTerminator(t)
             /\ gpupreagg_next_tuple(gpreagg[t]) \in 1 .. ngen
             /\ Finalized(gpupreagg_next_tuple(gpreagg[t]))

\* a CPU-fallback task and the cloned terminator of its generation have both
\* been handed to the consumer
C24_Witness ==
    /\ \E t \in Consumed : gpreagg[t].cpu_fallback
    /\ \E t \in Consumed : /\ gpreagg[t].clone
                           /\ gpupreagg_next_tuple(gpreagg[t]) # NULL

\* gpupreagg_next_task created and counted a task in this step
TaskCounted ==
    /\ ntask' = ntask + 1
    /\ ~gpreagg'[ntask'].clone
    /\ gpa_sstate'.ntasks_in_progress = gpa_sstate.ntasks_in_progress + 1

C25_Step ==
    /\ (~gpa_sstate.scan_done /\ gpa_sstate'.scan_done) =>
           (TaskCounted /\ gpas'.scan_done)
    /\ gpa_sstate.scan_done =>
           /\ gpa_sstate'.scan_done
           /\ TaskCounted => ~gpas'.scan_done

\* C25: scan_done of the shared state becomes true only in the step of
\* gpupreagg_next_task that counts a task and finds the source without a
\* further chunk; once true it stays true, and gpupreagg_next_task never
\* again counts a last task (the assignment guarded by
\* Assert(!gpa_sstate->scan_done) is not reached a second time), also when
\* the node is rescanned.
C25_ScanDoneSetOnce == [][C25_Step]_vars

\* the task t failed for lack of private working memory in this step: it went
\* through out_of_resource, or completed with DataStoreNoSpace raised before
\* the final reduction
PrivateExhausted(t) ==
    \/ OutOfResource(t)
    \/ /\ Completed(t)
       /\ gpreagg[t].kerror = "DataStoreNoSpace"
       /\ ~gpreagg[t].final_reduction_in_progress

C26_Step ==
    \A t \in TaskIds :
        PrivateExhausted(t) =>
            /\ gpreagg'[t].st = "pending"
            /\ last_put'.called /\ last_put'.task = t
            /\ gpreagg'[t].pds_final = NULL
            /\ gpreagg'[t].m_kds_final = 0
            /\ gpreagg'[t].m_fhash = 0
            /\ gpreagg'[t].nitems_real = gpreagg[t].nitems_real
            /\ ~gpreagg'[t].retry_by_nospace
            /\ gpreagg'[t].hash_size >= gpreagg'[t].nitems_real
            /\ gpreagg'[t].kds_nrooms = gpreagg'[t].nitems_real

\* C26: a task that fails for lack of private working memory (out of device
\* memory for its own allocation, or DataStoreNoSpace before the final
\* reduction) is detached from its generation and queued again with the same
\* chunk, retry_by_nospace false, hash_size >= nitems_real and a working
\* buffer of nitems_real rows.
C26_PrivateRetry == [][C26_Step]_vars

\* a task queued again after DataStoreNoSpace before the final reduction,
\* next to one queued again after out_of_resource
C26_Witness ==
    /\ \E t \in TaskIds :
          /\ gpreagg[t].st = "pending"
          /\ gpreagg[t].kerror = "DataStoreNoSpace"
          /\ ~gpreagg[t].final_reduction_in_progress
          /\ gpreagg[t].pds_final = NULL
          /\ gpreagg[t].kds_nrooms = gpreagg[t].nitems_real
    /\ \E t \in TaskIds :
          /\ gpreagg[t].st = "pending"
          /\ gpreagg[t].kerror = "Success"
          /\ ~IsTerminator(t)
          /\ last_put.called
          /\ last_put.task = t

\* C27: for statistics with exec_nrows_in at or above the under-sampling
\* threshold, the growth model is evaluated at
\* max(2 * exec_nrows_in, plan_nrows_in) rows.
C27_ProjectedRowCount ==
    (Sized.sized /\ gpa_sstate.exec_nrows_in >= UnderSampled) =>
        Sized.curr_nrows_in =
            Max(2 * gpa_sstate.exec_nrows_in, gpa_sstate.plan_nrows_in)

\* C28: the group estimate is the planner's group count exactly when
\* exec_nrows_in is below 1000, and the value of the growth model at the
\* projected row count otherwise.
C28_PlanEstimateWhenUnderSampled ==
    Sized.sized =>
        /\ Sized.estimate = "plan" <=> gpa_sstate.exec_nrows_in < UnderSampled
        /\ Sized.curr_ngroups =
              IF gpa_sstate.exec_nrows_in < UnderSampled
              THEN gpa_sstate.plan_ngroups
              ELSE GrowthModel(gpa_sstate, Sized.curr_nrows_in)

\* sized from the growth model, which gives another count than the planner
C28_Witness ==
    /\ Sized.sized
    /\ gpa_sstate.exec_nrows_in >= UnderSampled
    /\ Sized.estimate = "growth"
    /\ Sized.curr_ngroups # gpa_sstate.plan_ngroups

\* C29: the naive capacity is ceil(2.5 * g * s) + 200 for the group estimate
\* g and the salt s.
C29_NaiveCapacity ==
    Sized.sized =>
        Sized.naive =
            (5 * Sized.curr_ngroups * Sized.key_dist_salt + 1) \div 2 + FixedMargin

\* the bytes of a final buffer of nrooms rows
Footprint(nrooms) == gpa_sstate.head_sz + gpa_sstate.unit_sz * nrooms

\* C30: the capacity returned is not below the naive capacity; the footprint
\* head_sz + unit_sz * capacity fills a whole number (at least one) of
\* allocation units, short of it by less than one row; and a naive footprint
\* below one unit is inflated to between 1 and 3 units.
C30_WholeAllocationUnits ==
    Sized.sized =>
        LET chunk_sz == gpa_sstate.chunk_sz
            unit_sz  == gpa_sstate.unit_sz
            F        == Footprint(Sized.f_nrooms)
            units    == (F + unit_sz - 1) \div chunk_sz
        IN  /\ Sized.f_nrooms >= Sized.naive
            /\ units >= 1
            /\ units * chunk_sz - unit_sz < F
            /\ F <= units * chunk_sz
            /\ Footprint(Sized.naive) < chunk_sz =>
                  (chunk_sz - unit_sz < F /\ F <= 3 * chunk_sz)

\* C31: the hash-slot count returned by adjust_final_buffer_size is exactly
\* twice the returned capacity (after the inflation to allocation units), and
\* the generation allocated from it is created with that capacity, so that
\* the device hash table has twice as many slots as the buffer has rooms.
C31_HashSlotsTwiceCapacity ==
    /\ Sized.sized => Sized.f_hashsize = 2 * Sized.f_nrooms
    /\ SizedBuffer # NoGen =>
          /\ SizedBuffer.kds_nrooms = Sized.f_nrooms
          /\ SizedBuffer.hash_size = 2 * SizedBuffer.kds_nrooms

C31_Witness ==
    /\ SizedBuffer # NoGen
    /\ Sized.f_nrooms > Sized.naive
    /\ SizedBuffer.kds_nrooms > 0

\* C32: the salt returned is at least 1, it is 1 whenever the group estimate
\* g is at least P/5 (P = devBaselineMaxThreadsPerBlock), and for
\* 1 <= g < P/5 it satisfies g*salt <= P/5 < g*(salt+1), with P/5 read as the
\* exact quotient and as the integer quotient alike.
C32_SaltBounds ==
    Sized.sized =>
        LET g    == Sized.curr_ngroups
            salt == Sized.key_dist_salt
            P    == devBaselineMaxThreadsPerBlock
        IN  /\ salt >= 1
            /\ (5 * g >= P \/ g >= P \div 5) => salt = 1
            /\ (g >= 1 /\ 5 * g < P) =>
                  /\ 5 * g * salt <= P
                  /\ P < 5 * g * (salt + 1)
            /\ (g >= 1 /\ g < P \div 5) =>
                  /\ g * salt <= P \div 5
                  /\ P \div 5 < g * (salt + 1)

C32_Witness ==
    /\ Sized.sized
    /\ Sized.curr_ngroups >= 1
    /\ Sized.curr_ngroups < devBaselineMaxThreadsPerBlock \div 5
    /\ Sized.key_dist_salt > 1

MaxRefGets == 8             \* acquisitions made at most
RefStart == {1, MaxInt32 - 2, -3}

RefInit ==
    /\ \E nr \in PlanNRowsIn, ng \in PlanNGroups, r \in RefStart :
          gpa_sstate = [create_gpupreagg_shared_state(nr, ng) EXCEPT !.refcnt = r]
    /\ \E a \in BOOLEAN :
          /\ a => gpa_sstate.refcnt > 0
          /\ gpas = [num_group_keys |-> 1, has_notbyval |-> TRUE, scan_done |-> FALSE,
                  ended |-> FALSE, assert_enabled |-> a,
                  acquired |-> 0, released |-> 0]
    /\ gpreagg = [t \in TaskIds |-> NoTask]
    /\ pds = [g \in GenIds |-> NoGen]
    /\ ngen = 0
    /\ ntask = 0
    /\ nfail = 0
    /\ crashed = FALSE
    /\ last_put = [called |-> FALSE]
    /\ lock_calls = {}

RefFrame ==
    UNCHANGED <<gpreagg, pds, ngen, ntask, nfail, last_put, lock_calls>>

\* get_gpupreagg_shared_state: Assert(refcnt_old > 0) on the count read as int32
RefGet ==
    /\ ~crashed
    /\ gpas.acquired < MaxRefGets
    /\ gpa_sstate' = get_gpupreagg_shared_state(gpa_sstate)
    /\ crashed' = (gpas.assert_enabled /\ ~(gpa_sstate.refcnt > 0))
    /\ gpas' = [gpas EXCEPT !.acquired = @ + 1]
    /\ RefFrame

\* put_gpupreagg_shared_state gives back a reference acquired before:
\* Assert(refcnt_new >= 0)
RefPut ==
    /\ ~crashed
    /\ gpas.released < gpas.acquired
    /\ gpa_sstate' = put_gpupreagg_shared_state(gpa_sstate)
    /\ crashed' = (gpas.assert_enabled /\ ~(gpa_sstate'.refcnt >= 0))
    /\ gpas' = [gpas EXCEPT !.released = @ + 1]
    /\ RefFrame

RefNext == RefGet \/ RefPut

RefSpec == RefInit /\ [][RefNext]_vars

\* C35: get_gpupreagg_shared_state never fails and never wraps: the count
\* read before the acquisition is positive as a signed 32-bit number, and
\* the count after it is not below the count before it as an unsigned
\* 32-bit number (it saturates at the maximum).
C35_Step ==
    gpas'.acquired = gpas.acquired + 1 =>
        /\ gpa_sstate.refcnt > 0
        /\ ~crashed'
        /\ ~ULess32(gpa_sstate'.refcnt, gpa_sstate.refcnt)

C35_AcquireNeverWraps == [][C35_Step]_vars

\* C36: gpupreagg_put_final_buffer is only invoked for a task attached to a
\* generation and counted in its ntasks_running: no error path calls it with
\* a null pds_final (the null pointer is dereferenced), and none calls it
\* for a termination task, whose generation has no running task left to
\* give back.
C36_PutOnlyWhenAttached ==
    /\ ~crashed
    /\ \A g \in GenIds : pds[g].ntasks_running >= 0

\* the chunks turned into reduction tasks
ChunkTasks == {t \in TaskIds : gpreagg[t].st # "none" /\ ~gpreagg[t].clone}

\* C39: each reduction task is counted in one per-strategy counter once,
\* however many times it is retried: the four counters never sum to more
\* than the number of reduction tasks, and once every task has completed
\* they sum to the number of chunks reduced on the device.
C39_CountedOncePerTask ==
    /\ SelNumTasks(gpa_sstate) <= Cardinality(ChunkTasks)
    /\ Quiescent =>
          SelNumTasks(gpa_sstate) =
              Cardinality({t \in ChunkTasks : gpreagg[t].reduced})

(* ---------------- EXPLAIN ---------------- *)
\* printf("%.1f") of (double)num / (double)den, in tenths: the nearest
\* tenth, the even one on a tie (ties of these counts are exact in binary)
Tenths(num, den) ==
    LET q == (10 * num) \div den
        r == (10 * num) % den
    IN  IF 2 * r > den THEN q + 1
        ELSE IF 2 * r < den THEN q
        ELSE q + (q % 2)

NotShown == -1

\* ExplainGpuPreAgg, the "Reduction" property: the percentage put after the
\* name of each strategy, in tenths, or NotShown.  Before any kernel was
\* counted the policy is taken from the plan and carries no percentage.
ExplainGpuPreAgg(s) ==
    LET n_tasks == SelNumTasks(s)
        with_percentage ==
            (IF s.n_tasks_nogrp > 0 THEN 1 ELSE 0) +
            (IF s.n_tasks_local > 0 THEN 1 ELSE 0) +
            (IF s.n_tasks_global > 0 THEN 1 ELSE 0) +
            (IF s.n_tasks_final > 0 THEN 1 ELSE 0) > 1
        show(n, shown) == IF n_tasks # 0 /\ n > 0 /\ with_percentage
                          THEN Tenths(100 * shown, n_tasks)
                          ELSE NotShown
    IN  [with_percentage |-> n_tasks # 0 /\ with_percentage,
         NoGroup |-> show(s.n_tasks_nogrp, s.n_tasks_nogrp),
         Local   |-> show(s.n_tasks_local, s.n_tasks_local),
         Global  |-> show(s.n_tasks_global, s.n_tasks_global),
         Final   |-> show(s.n_tasks_final, s.n_tasks_global)]

\* C34: when kernels were counted under more than one strategy, the
\* percentage EXPLAIN shows for each strategy S that ran is
\* 100 * n_tasks_S / (n_tasks_nogrp + n_tasks_local + n_tasks_global +
\* n_tasks_final), to one decimal.
C34_ExplainPercentages ==
    LET e == ExplainGpuPreAgg(gpa_sstate)
        n == SelNumTasks(gpa_sstate)
        right(c) == IF c > 0 THEN Tenths(100 * c, n) ELSE NotShown
    IN  e.with_percentage =>
            /\ e.NoGroup = right(gpa_sstate.n_tasks_nogrp)
            /\ e.Local = right(gpa_sstate.n_tasks_local)
            /\ e.Global = right(gpa_sstate.n_tasks_global)
            /\ e.Final = right(gpa_sstate.n_tasks_final)

(* ---------------- chunks built from an outer plan ---------------- *)
\* gpupreagg_next_task over an outer plan (no ss_currentRelation).  The rows
\* of the outer plan are numbered 1, 2, ...; gpas.outer holds their sizes,
\* gpas.outer_next the row ExecProcNode returns next, gpas.chunk_sz the room
\* of a row store, gpas.scan_overflow the row kept back (0: none) and
\* gpas.chunks the row stores handed to gpupreagg_create_task.

MaxScanRows == 5            \* rows of the outer plan at most
ScanRowSz   == {1, 2}
ScanChunkSz == {3, 4}

\* the "while (true)" loop; L.pds is the row store under construction
RECURSIVE ScanLoop(_)
ScanLoop(L) ==
    IF L.scan_overflow # 0
    THEN \* slot = scan_overflow; scan_overflow = NULL; and the loop goes on
         ScanLoop([L EXCEPT !.scan_overflow = 0])
    ELSE IF L.outer_next > Len(L.outer)
    THEN \* TupIsNull(slot)
         [L EXCEPT !.scan_done = TRUE]
    ELSE LET slot == L.outer_next
             L1   == [L EXCEPT !.outer_next = @ + 1, !.created = TRUE]
         IN  IF L.used + L.outer[slot] <= L.chunk_sz
             THEN \* PDS_insert_tuple
                  ScanLoop([L1 EXCEPT !.pds = Append(@, slot),
                                      !.used = @ + L.outer[slot]])
             ELSE [L1 EXCEPT !.scan_overflow = slot]

ScanInit ==
    /\ \E nr \in PlanNRowsIn, ng \in PlanNGroups :
          gpa_sstate = create_gpupreagg_shared_state(nr, ng)
    /\ \E n \in 0 .. MaxScanRows :
       \E outer \in [1 .. n -> ScanRowSz], c \in ScanChunkSz :
          gpas = [num_group_keys |-> 1, has_notbyval |-> TRUE, scan_done |-> FALSE,
                  ended |-> FALSE, outer |-> outer, outer_next |-> 1,
                  chunk_sz |-> c, scan_overflow |-> 0, chunks |-> << >>]
    /\ gpreagg = [t \in TaskIds |-> NoTask]
    /\ pds = [g \in GenIds |-> NoGen]
    /\ ngen = 0
    /\ ntask = 0
    /\ nfail = 0
    /\ crashed = FALSE
    /\ last_put = [called |-> FALSE]
    /\ lock_calls = {}

\* gpupreagg_next_task
ScanNextTask ==
    /\ ~gpas.scan_done
    /\ LET L == ScanLoop([outer |-> gpas.outer, outer_next |-> gpas.outer_next,
                          chunk_sz |-> gpas.chunk_sz,
                          scan_overflow |-> gpas.scan_overflow,
                          scan_done |-> FALSE, created |-> FALSE,
                          pds |-> << >>, used |-> 0])
           is_last_task == L.scan_overflow = 0
       IN  /\ gpas' = [gpas EXCEPT !.outer_next = L.outer_next,
                                   !.scan_overflow = L.scan_overflow,
                                   !.scan_done = L.scan_done,
                                   !.chunks = IF L.created THEN Append(@, L.pds)
                                              ELSE @]
           /\ IF L.created
              THEN /\ gpreagg' = [gpreagg EXCEPT ![ntask + 1] =
                                     gpupreagg_create_task(Len(L.pds))]
                   /\ ntask' = ntask + 1
                   /\ gpa_sstate' =
                         [get_gpupreagg_shared_state(gpa_sstate) EXCEPT
                             !.ntasks_in_progress = Inc32(@),
                             !.scan_done = IF is_last_task THEN TRUE ELSE @]
              ELSE UNCHANGED <<gpreagg, ntask, gpa_sstate>>
    /\ UNCHANGED <<pds, ngen, nfail, crashed, last_put, lock_calls>>

ScanNext == ScanNextTask

ScanSpec == ScanInit /\ [][ScanNext]_vars

RECURSIVE Flatten(_)
Flatten(chunks) ==
    IF chunks = << >> THEN << >> ELSE Head(chunks) \o Flatten(Tail(chunks))

\* C38: every row pulled from the outer plan is stored in exactly one chunk:
\* the chunks, read in order, followed by the row kept in scan_overflow, are
\* the rows pulled so far, each once (so that the row kept back opens the
\* next chunk, and no row is dropped or stored twice).
C38_EveryRowInOneChunk ==
    Flatten(gpas.chunks)
        \o (IF gpas.scan_overflow # 0 THEN <<gpas.scan_overflow>> ELSE << >>)
      = [i \in 1 .. (gpas.outer_next - 1) |-> i]

(* ---------------- the spinlock of the shared state ---------------- *)
\* The critical sections one by one.  Each task is worked on by a thread of
\* its own; gpreagg[t].pc tells where the thread is: fn is the function, at
\* is "acquire" (before SpinLockAcquire), "held" (inside the section),
\* "release" (before SpinLockRelease), "idle" (in no function) or "exited"
\* (the process is gone), and next is the function entered after the
\* release.  gpa_sstate.lock is 0 or the thread that holds the lock.

MaxThreads == 3             \* threads at most
LockThreads == {t \in TaskIds : t <= MaxThreads}

Idle == [fn |-> "none", at |-> "idle", next |-> "none"]
LockFunctions == {"gpupreagg_next_task", "gpupreagg_get_final_buffer",
                  "gpupreagg_process_reduction_task",
                  "gpupreagg_put_final_buffer", "gpupreagg_respond_task",
                  "gpupreagg_complete_task", "ExplainGpuPreAgg"}

LockInit ==
    /\ \E nr \in PlanNRowsIn, ng \in PlanNGroups :
          gpa_sstate = create_gpupreagg_shared_state(nr, ng) @@ [lock |-> 0]
    /\ gpas = [num_group_keys |-> 1, has_notbyval |-> TRUE, scan_done |-> FALSE,
               ended |-> FALSE]
    /\ gpreagg = [t \in TaskIds |-> NoTask @@ [pc |-> Idle]]
    /\ pds = [g \in GenIds |-> NoGen]
    /\ ngen = 0
    /\ ntask = 0
    /\ nfail = 0
    /\ crashed = FALSE
    /\ last_put = [called |-> FALSE]
    /\ lock_calls = {}

LockFrame ==
    UNCHANGED <<gpas, pds, ngen, ntask, nfail, crashed, last_put, lock_calls>>

Goto(t, fn, at, next) ==
    gpreagg' = [gpreagg EXCEPT ![t].pc = [fn |-> fn, at |-> at, next |-> next]]

\* a function with a critical section is entered: gpupreagg_process_task
\* starts with gpupreagg_get_final_buffer for a task that is not attached,
\* gpupreagg_complete_task puts the final buffer of a task that is
LockEnter(t) ==
    /\ gpreagg[t].pc = Idle
    /\ \E fn \in LockFunctions \ {"gpupreagg_process_reduction_task"} :
          /\ fn = "gpupreagg_get_final_buffer" => gpreagg[t].pds_final = NULL
          /\ fn = "gpupreagg_put_final_buffer" => gpreagg[t].pds_final # NULL
          /\ Goto(t, fn, "acquire", "none")
    /\ UNCHANGED gpa_sstate
    /\ LockFrame

\* SpinLockAcquire: spins until the lock is free
LockAcquire(t) ==
    /\ gpreagg[t].pc.at = "acquire"
    /\ gpa_sstate.lock = 0
    /\ gpa_sstate' = [gpa_sstate EXCEPT !.lock = t]
    /\ Goto(t, gpreagg[t].pc.fn, "held", "none")
    /\ LockFrame

\* SpinLockRelease, and what the thread does next
LockRelease(t) ==
    /\ gpreagg[t].pc.at = "release"
    /\ gpa_sstate' = [gpa_sstate EXCEPT !.lock = 0]
    /\ IF gpreagg[t].pc.next = "none"
       THEN gpreagg' = [gpreagg EXCEPT ![t].pc = Idle]
       ELSE Goto(t, gpreagg[t].pc.next, "acquire", "none")
    /\ LockFrame

\* the sections of gpupreagg_next_task, gpupreagg_respond_task,
\* gpupreagg_complete_task (termination) and ExplainGpuPreAgg: no call, no
\* elog() inside
LockPlainSection(t) ==
    /\ gpreagg[t].pc.at = "held"
    /\ gpreagg[t].pc.fn \in {"gpupreagg_next_task", "gpupreagg_respond_task",
                              "gpupreagg_complete_task", "ExplainGpuPreAgg"}
    /\ Goto(t, gpreagg[t].pc.fn, "release", "none")
    /\ UNCHANGED gpa_sstate
    /\ LockFrame

\* the section of gpupreagg_get_final_buffer, PG_TRY ... PG_END_TRY
LockGetFinalBuffer(t) ==
    /\ gpreagg[t].pc = [fn |-> "gpupreagg_get_final_buffer", at |-> "held",
                        next |-> "none"]
    /\ \/ \* attached: released after PG_END_TRY, the kernel is counted next
          /\ gpreagg' = [gpreagg EXCEPT
                 ![t].pds_final = 1,
                 ![t].pc = [fn |-> "gpupreagg_get_final_buffer", at |-> "release",
                            next |-> "gpupreagg_process_reduction_task"]]
          /\ UNCHANGED gpa_sstate
       \/ \* gpupreagg_alloc_final_buffer is out of device memory: bailout
          /\ Goto(t, "gpupreagg_get_final_buffer", "release", "none")
          /\ UNCHANGED gpa_sstate
       \/ \* elog(ERROR): PG_CATCH releases the lock and throws again, and
          \* PG_CATCH of gpupreagg_process_task puts the final buffer
          /\ Goto(t, "gpupreagg_get_final_buffer", "release",
                  "gpupreagg_put_final_buffer")
          /\ UNCHANGED gpa_sstate
       \/ \* PG_CATCH of gpupreagg_alloc_final_buffer: elog(FATAL) ends the
          \* process, no PG_CATCH is run
          /\ Goto(t, "gpupreagg_get_final_buffer", "exited", "none")
          /\ UNCHANGED gpa_sstate
    /\ LockFrame

\* "Count number of reduction kernel for each"
LockCountKernel(t) ==
    /\ gpreagg[t].pc = [fn |-> "gpupreagg_process_reduction_task", at |-> "held",
                        next |-> "none"]
    /\ \/ Goto(t, "gpupreagg_process_reduction_task", "release", "none")
       \/ \* "Bug? unexpected reduction mode": released, then elog(ERROR)
          Goto(t, "gpupreagg_process_reduction_task", "release",
               "gpupreagg_put_final_buffer")
    /\ UNCHANGED gpa_sstate
    /\ LockFrame

\* the section of gpupreagg_put_final_buffer: pds_final->ntasks_running is
\* read inside it
LockPutFinalBuffer(t) ==
    /\ gpreagg[t].pc = [fn |-> "gpupreagg_put_final_buffer", at |-> "held",
                        next |-> "none"]
    /\ IF gpreagg[t].pds_final = NULL
       THEN \* null pointer: the process ends inside the section
            Goto(t, "gpupreagg_put_final_buffer", "exited", "none")
       ELSE gpreagg' = [gpreagg EXCEPT
               ![t].pds_final = NULL,
               ![t].pc = [fn |-> "gpupreagg_put_final_buffer", at |-> "release",
                          next |-> "none"]]
    /\ UNCHANGED gpa_sstate
    /\ LockFrame

LockThread(t) ==
    \/ LockEnter(t)
    \/ LockAcquire(t)
    \/ LockRelease(t)
    \/ LockPlainSection(t)
    \/ LockGetFinalBuffer(t)
    \/ LockCountKernel(t)
    \/ LockPutFinalBuffer(t)

LockNext == \E t \in LockThreads : LockThread(t)

LockSpec == LockInit /\ [][LockNext]_vars

\* C37: every path that acquires gpa_sstate->lock releases it before the
\* function returns or throws, and no thread acquires the lock while it
\* holds it: a thread holds the lock only inside a critical section, and a
\* thread about to acquire it does not hold it.
C37_LockDiscipline ==
    \A t \in LockThreads :
        gpa_sstate.lock = t => gpreagg[t].pc.at \in {"held", "release"}
====
